---- MODULE Spec2Model ----
(***************************************************************************)
(* TransLog fleet management (Django app "core").                          *)
(*                                                                         *)
(* The store holds three tables (Vehicle, MaintenanceRecord,               *)
(* MileageRecord) and the auth groups.  Requests are the dashboard view    *)
(* (maintenance alerts, RF006) and the mileage form (RF005); the admin     *)
(* site creates vehicles, assigns drivers and adds maintenance records.    *)
(***************************************************************************)
EXTENDS Integers, Sequences, FiniteSets, TLC

VARIABLES
    group_permissions,  \* auth_group_permissions: group name -> set of codenames
    vehicle_tbl,        \* core_vehicle: pk -> row (the domain is the set of existing pks)
    maintenance_tbl,    \* core_maintenancerecord, in insertion (pk) order
    mileage_tbl,        \* core_mileagerecord, in insertion (pk) order
    response,           \* the response to the request processed last
    initial_mileage,    \* history: pk -> current_mileage the vehicle was created with
    submitted,          \* history: the accepted mileage submissions, in order
    req,                \* the mileage requests in flight (concurrent specification)
    users,              \* auth_user: the accounts that exist
    auth_permission,    \* auth_permission: the codenames that exist
    django_migrations,  \* django_migrations: the migrations of core that are applied
    migrate_pc,         \* the position of the migrate command
    reader,             \* the dashboard request in flight (reader specification)
    seen                \* history: the alert lists of the store's states since
                        \* the dashboard request in flight read the vehicles

vars == <<group_permissions, vehicle_tbl, maintenance_tbl, mileage_tbl,
          response, initial_mileage, submitted, req,
          users, auth_permission, django_migrations, migrate_pc, reader, seen>>

auth == <<auth_permission, django_migrations, migrate_pc>>

dash == <<reader, seen>>

store == <<vehicle_tbl, maintenance_tbl, mileage_tbl>>

-----------------------------------------------------------------------------
(* Bounds of the model *)

MaxMileageRecords == 2
MaxMaintenanceRecords == 2
NumRequests == 2

Vehicles == {1, 2}
ValidKm == {0, 999, 1000, 2000, 2001}
InitialKm == {0, 1000}
Intervals == {1000, 2000}
(* services: an early preventive one, two preventive ones of a later date,
   and a corrective one of the later date *)
MaintenanceInputs ==
    {[type |-> "PRE", date |-> 1, km |-> 1000],
     [type |-> "PRE", date |-> 2, km |-> 0],
     [type |-> "PRE", date |-> 2, km |-> 1000],
     [type |-> "COR", date |-> 2, km |-> 2000]}

(* Raw POST data of the mileage field: a number, or text that is no number *)
SubmittedKm == {0, 1000, 2000}
RawMileage == [num : {TRUE}, val : SubmittedKm \cup {-1}] \cup [num : {FALSE}, val : {0}]

-----------------------------------------------------------------------------
(* Users and groups *)

Groups == {"Motorista", "Mecanico", "Administrador"}

Users == {"jose", "chefe", "admin", "guest"}

UserGroups(u) ==
    CASE u = "jose"  -> {"Motorista"}
      [] u = "chefe" -> {"Motorista", "Mecanico"}
      [] u = "admin" -> {"Administrador"}
      [] OTHER       -> {}

CoreModels == {"vehicle", "maintenancerecord", "mileagerecord"}

ModelPermissions(m) == {"add_" \o m, "change_" \o m, "delete_" \o m, "view_" \o m}

AllPermissions == UNION {ModelPermissions(m) : m \in CoreModels}

LIMITE_ALERTA_KM == 1000

-----------------------------------------------------------------------------
(* Groups and permissions: signals.py and migration 0003 *)

(* Permission.objects.filter(codename__in=codenames) *)
PermissionsFilter(existing, codenames) == existing \cap codenames

(* migration 0003: the list of the Motorista group has view_vehicle *)
motorista_perms_codenames_0003 ==
    {"add_mileagerecord", "view_mileagerecord", "view_vehicle"}

(* the handler gives the Motorista group view_vehicle as well *)
motorista_perms_with_view_vehicle ==
    {"add_mileagerecord", "view_mileagerecord", "view_vehicle"}

(* signals.py: view_vehicle is left out of the list *)
motorista_perms_codenames == {"add_mileagerecord", "view_mileagerecord"}

mecanico_perms_codenames ==
    {"add_maintenancerecord", "change_maintenancerecord",
     "view_maintenancerecord", "view_vehicle"}

admin_permissions(existing) == existing \cap AllPermissions

(* post_migrate handler: get_or_create each group, then permissions.set(...) *)
create_groups_on_migrate(gp, existing) ==
    [g \in DOMAIN gp \cup Groups |->
        CASE g = "Motorista"     -> PermissionsFilter(existing, motorista_perms_codenames)
          [] g = "Mecanico"      -> PermissionsFilter(existing, mecanico_perms_codenames)
          [] g = "Administrador" -> admin_permissions(existing)
          [] OTHER               -> gp[g]]

(* request.user of a request without a session *)
AnonymousUser == "AnonymousUser"

(* the null of a foreign key to auth_user *)
NoUser == "NULL"

(* settings.LOGIN_URL (Django's default), as the test of the dashboard expects it *)
LOGIN_URL == "/accounts/login/"

is_authenticated_always(u) == TRUE

(* LoginRequiredMixin.dispatch: request.user.is_authenticated *)
is_authenticated(u) == u \in users

(* migration 0002: get_or_create the groups Admin and Viewer, permissions.set *)
create_groups(gp, existing) ==
    [g \in DOMAIN gp \cup {"Admin", "Viewer"} |->
        CASE g = "Admin"  -> PermissionsFilter(existing, ModelPermissions("vehicle"))
          [] g = "Viewer" -> PermissionsFilter(existing, {"view_vehicle"})
          [] OTHER        -> gp[g]]

(* migration 0003: get_or_create each group, permissions.set only if created *)
create_groups_and_permissions(gp, existing) ==
    [g \in DOMAIN gp \cup Groups |->
        IF g \in DOMAIN gp
        THEN gp[g]
        ELSE CASE g = "Motorista" ->
                    PermissionsFilter(existing, motorista_perms_codenames_0003)
               [] g = "Mecanico" ->
                    PermissionsFilter(existing, mecanico_perms_codenames)
               [] g = "Administrador" -> admin_permissions(existing)]

(* the migrations of core, in the order of their dependencies *)
Migrations == <<"0001", "0002", "0003">>

(* the RunPython operation of migration m *)
RunPython(m, gp, existing) ==
    CASE m = "0002" -> create_groups(gp, existing)
      [] m = "0003" -> create_groups_and_permissions(gp, existing)
      [] OTHER      -> gp

(* ModelBackend.has_perm for a user whose permissions come from groups only *)
has_perm(u, codename) ==
    \E g \in UserGroups(u) :
        g \in DOMAIN group_permissions /\ codename \in group_permissions[g]

(* user.groups.filter(name='Motorista').exists() *)
IsMotorista(u) == "Motorista" \in UserGroups(u)

-----------------------------------------------------------------------------
(* models.py *)

(* MinValueValidator(0) *)
MinValueValidator0(n) == n >= 0

VehicleRow(km, interval) ==
    [current_mileage |-> km, maintenance_interval_km |-> interval,
     assigned_drivers |-> {}]

MaintenanceRow(v, type, date, km, mechanic) ==
    [vehicle |-> v, maintenance_type |-> type, date |-> date,
     mileage_at_maintenance |-> km, responsible_mechanic |-> mechanic]

MileageRow(v, driver, km) == [vehicle |-> v, driver |-> driver, mileage |-> km]

MileageDiffers(vehicle, mileage) == mileage # vehicle.current_mileage

(* MileageRecord.save: the condition of the if *)
MileageExceeds(vehicle, mileage) == mileage > vehicle.current_mileage

(* MileageRecord.save: self.vehicle.current_mileage = self.mileage *)
UpdatedVehicle(vehicle, mileage) == [vehicle EXCEPT !.current_mileage = mileage]

(* Vehicle.save(): UPDATE of all columns of the row; the many-to-many
   relation lives in its own table and is not written *)
SaveVehicle(tbl, v, vehicle) ==
    [tbl EXCEPT ![v] = [vehicle EXCEPT !.assigned_drivers = tbl[v].assigned_drivers]]

-----------------------------------------------------------------------------
(* forms.py: MileageRecordForm *)

(* Vehicle.objects.filter(assigned_drivers=user) *)
assigned_vehicles(u) ==
    {v \in DOMAIN vehicle_tbl : u \in vehicle_tbl[v].assigned_drivers}

MileageFieldNumeric(raw) == raw.num

(* the 'mileage' field: forms.IntegerField parses the text, then the model
   field's MinValueValidator(0) runs in the instance's full_clean *)
MileageFieldValid(raw) == raw.num /\ MinValueValidator0(raw.val)

(* the queryset of the field is all vehicles *)
VehicleFieldExists(u, v) == v \in DOMAIN vehicle_tbl

(* the 'vehicle' field: a ModelChoiceField over the user's assigned vehicles *)
VehicleFieldValid(u, v) == v \in assigned_vehicles(u)

(* form.errors: the fields that failed *)
form_errors(u, v, raw) ==
    (IF VehicleFieldValid(u, v) THEN {} ELSE {"vehicle"})
        \cup (IF MileageFieldValid(raw) THEN {} ELSE {"mileage"})

is_valid(u, v, raw) == form_errors(u, v, raw) = {}

-----------------------------------------------------------------------------
(* views.py: DashboardPageView.get_context_data *)

(* the Motorista branch forgets the filter on assigned_drivers *)
vehicles_to_check_unfiltered(u) ==
    IF has_perm(u, "view_vehicle") \/ IsMotorista(u) THEN DOMAIN vehicle_tbl ELSE {}

(* the role filter: the set of vehicles of the queryset vehicles_to_check *)
vehicles_to_check(u) ==
    IF has_perm(u, "view_vehicle")
    THEN DOMAIN vehicle_tbl
    ELSE IF IsMotorista(u)
         THEN assigned_vehicles(u)
         ELSE {}

(* the orders in which a queryset without ORDER BY may yield its rows *)
Orderings(S) ==
    {s \in [1..Cardinality(S) -> S] : \A i, j \in 1..Cardinality(S) : s[i] = s[j] => i = j}

(* MaintenanceRecord.objects.filter(vehicle=vehicle, maintenance_type='PRE') *)
Preventives(v) ==
    {i \in DOMAIN maintenance_tbl :
        /\ maintenance_tbl[i].vehicle = v
        /\ maintenance_tbl[i].maintenance_type = "PRE"}

(* the preventive row of the highest odometer reading *)
last_preventive_by_mileage(v) ==
    IF Preventives(v) = {}
    THEN {0}
    ELSE {i \in Preventives(v) :
            \A j \in Preventives(v) :
                maintenance_tbl[j].mileage_at_maintenance
                    <= maintenance_tbl[i].mileage_at_maintenance}

(* the order is by date ascending: a row of the earliest date *)
last_preventive_oldest(v) ==
    IF Preventives(v) = {}
    THEN {0}
    ELSE {i \in Preventives(v) :
            \A j \in Preventives(v) : maintenance_tbl[i].date <= maintenance_tbl[j].date}

(* .order_by('-date').first(): a row of the latest date (which one of several
   rows of that date is the database's choice), or 0 for None *)
last_preventive_choices(v) ==
    IF Preventives(v) = {}
    THEN {0}
    ELSE {i \in Preventives(v) :
            \A j \in Preventives(v) : maintenance_tbl[j].date <= maintenance_tbl[i].date}

(* the else branch left out: km_proxima_revisao keeps its initial 0 *)
km_proxima_revisao_no_else(v, last_preventive) ==
    IF last_preventive # 0
    THEN maintenance_tbl[last_preventive].mileage_at_maintenance
            + vehicle_tbl[v].maintenance_interval_km
    ELSE 0

km_proxima_revisao(v, last_preventive) ==
    IF last_preventive # 0
    THEN maintenance_tbl[last_preventive].mileage_at_maintenance
            + vehicle_tbl[v].maintenance_interval_km
    ELSE vehicle_tbl[v].maintenance_interval_km

km_faltando(v, last_preventive) ==
    km_proxima_revisao(v, last_preventive) - vehicle_tbl[v].current_mileage

InAlertStrict(km_atual, proxima) == km_atual > (proxima - LIMITE_ALERTA_KM)

(* RF006: in alert if overdue or within the limit *)
InAlert(km_atual, proxima) == km_atual >= (proxima - LIMITE_ALERTA_KM)

AlertEntry(v, last_preventive) ==
    [vehicle |-> v,
     km_faltando |-> km_faltando(v, last_preventive),
     proxima_revisao_km |-> km_proxima_revisao(v, last_preventive)]

(* the list built by inserting at the front *)
RECURSIVE vehicles_in_alert_prepend(_, _)
vehicles_in_alert_prepend(vehicles, last) ==
    IF vehicles = <<>>
    THEN <<>>
    ELSE LET v == Head(vehicles)
             rest == vehicles_in_alert_prepend(Tail(vehicles), last)
         IN  IF InAlert(vehicle_tbl[v].current_mileage, km_proxima_revisao(v, last[v]))
             THEN rest \o <<AlertEntry(v, last[v])>>
             ELSE rest

(* the loop over vehicles_to_check, appending to vehicles_in_alert *)
RECURSIVE vehicles_in_alert(_, _)
vehicles_in_alert(vehicles, last) ==
    IF vehicles = <<>>
    THEN <<>>
    ELSE LET v == Head(vehicles)
             rest == vehicles_in_alert(Tail(vehicles), last)
         IN  IF InAlert(vehicle_tbl[v].current_mileage, km_proxima_revisao(v, last[v]))
             THEN <<AlertEntry(v, last[v])>> \o rest
             ELSE rest

Range(s) == {s[i] : i \in DOMAIN s}

(* the results first() may give for each vehicle of S *)
LastChoices(S) ==
    {last \in [S -> 0..Len(maintenance_tbl)] :
        \A v \in S : last[v] \in last_preventive_choices(v)}

(* the alert lists (as sets of entries) get_context_data may build for viewer u
   from the present state of the store *)
AlertResults(u) ==
    LET S == vehicles_to_check(u)
        vehicles == CHOOSE o \in Orderings(S) : TRUE
    IN  {Range(vehicles_in_alert(vehicles, last)) : last \in LastChoices(S)}

(* every committed change of the store is one more state a dashboard request
   in flight ran beside *)
History ==
    seen' = IF reader.pc = "loop" THEN seen \cup AlertResults(reader.user)' ELSE seen

-----------------------------------------------------------------------------
(* Responses *)

(* the logger.debug line "[Verificação Alerta]" written for each vehicle *)
CheckLine(v, last_preventive) ==
    [vehicle |-> v,
     km_atual |-> vehicle_tbl[v].current_mileage,
     proxima_revisao_km |-> km_proxima_revisao(v, last_preventive),
     km_faltando |-> km_faltando(v, last_preventive)]

NoResponse ==
    [kind |-> "none", user |-> "", errors |-> {}, checked |-> <<>>, alert_list |-> <<>>,
     location |-> ""]

Reply(kind, u) ==
    [kind |-> kind, user |-> u, errors |-> {}, checked |-> <<>>, alert_list |-> <<>>,
     location |-> ""]

(* form_invalid: the form is rendered again with form.errors *)
FormInvalidReply(u, errors) ==
    [kind |-> "form_invalid", user |-> u, errors |-> errors,
     checked |-> <<>>, alert_list |-> <<>>, location |-> ""]

(* handle_no_permission of an anonymous user: redirect_to_login(next) *)
LoginRedirect(u, next) ==
    [kind |-> "login_redirect", user |-> u, errors |-> {}, checked |-> <<>>,
     alert_list |-> <<>>, location |-> LOGIN_URL \o "?next=" \o next]

(* CreateView.form_valid: HttpResponseRedirect(success_url) *)
SuccessRedirect(u) ==
    [kind |-> "redirect", user |-> u, errors |-> {}, checked |-> <<>>,
     alert_list |-> <<>>, location |-> "/dashboard/"]

DashboardReply(u, vehicles, last) ==
    [kind |-> "dashboard", user |-> u, errors |-> {},
     checked |-> [i \in DOMAIN vehicles |-> CheckLine(vehicles[i], last[vehicles[i]])],
     alert_list |-> vehicles_in_alert(vehicles, last),
     location |-> ""]

-----------------------------------------------------------------------------
(* Requests, each processed as a whole *)

(* admin site: add a vehicle; the pk is the next of the sequence, and the pk
   of a deleted vehicle is not given again *)
CreateVehicle(km, interval) ==
    /\ DOMAIN initial_mileage # Vehicles
    /\ MinValueValidator0(km)
    /\ MinValueValidator0(interval)
    /\ LET pk == Cardinality(DOMAIN initial_mileage) + 1
       IN  /\ vehicle_tbl' = vehicle_tbl @@ (pk :> VehicleRow(km, interval))
           /\ initial_mileage' = initial_mileage @@ (pk :> km)
    /\ response' = Reply("admin", "admin")
    /\ UNCHANGED <<group_permissions, users, auth, dash, maintenance_tbl, mileage_tbl, submitted, req>>

(* admin site: Vehicle.assigned_drivers, limited to the group Motorista *)
AssignDriver(v, u) ==
    /\ v \in DOMAIN vehicle_tbl
    /\ u \in users
    /\ IsMotorista(u)
    /\ u \notin vehicle_tbl[v].assigned_drivers
    /\ vehicle_tbl' = [vehicle_tbl EXCEPT ![v].assigned_drivers = @ \cup {u}]
    /\ response' = Reply("admin", "admin")
    /\ UNCHANGED <<group_permissions, users, auth, dash, maintenance_tbl, mileage_tbl,
                   initial_mileage, submitted, req>>

(* admin site: add a maintenance record *)
AddMaintenance(v, type, date, km, mechanic) ==
    /\ v \in DOMAIN vehicle_tbl
    /\ mechanic \in users \cup {NoUser}
    /\ Len(maintenance_tbl) < MaxMaintenanceRecords
    /\ MinValueValidator0(km)
    /\ maintenance_tbl' = Append(maintenance_tbl, MaintenanceRow(v, type, date, km, mechanic))
    /\ response' = Reply("admin", "admin")
    /\ UNCHANGED <<group_permissions, users, auth, reader, vehicle_tbl, mileage_tbl,
                   initial_mileage, submitted, req>>
    /\ History

(* on_delete=models.DO_NOTHING: the rows of the vehicle stay *)
DO_NOTHING(tbl, v) == tbl

(* on_delete=models.CASCADE on the foreign key 'vehicle': the rows of vehicle v
   are deleted with it *)
CASCADE(tbl, v) ==
    LET other(row) == row.vehicle # v
    IN  SelectSeq(tbl, other)

(* admin site: change a vehicle's maintenance interval (the other fields of
   the form are posted as they are stored) *)
ChangeVehicle(v, interval) ==
    /\ v \in DOMAIN vehicle_tbl
    /\ MinValueValidator0(interval)
    /\ vehicle_tbl[v].maintenance_interval_km # interval
    /\ vehicle_tbl' = [vehicle_tbl EXCEPT ![v].maintenance_interval_km = interval]
    /\ response' = Reply("admin", "admin")
    /\ UNCHANGED <<group_permissions, users, auth, reader, maintenance_tbl, mileage_tbl,
                   initial_mileage, submitted, req>>
    /\ History

(* admin site: delete a vehicle *)
DeleteVehicle(v) ==
    /\ v \in DOMAIN vehicle_tbl
    /\ vehicle_tbl' = [w \in DOMAIN vehicle_tbl \ {v} |-> vehicle_tbl[w]]
    /\ maintenance_tbl' = CASCADE(maintenance_tbl, v)
    /\ mileage_tbl' = CASCADE(mileage_tbl, v)
    /\ response' = Reply("admin", "admin")
    /\ UNCHANGED <<group_permissions, users, auth, reader,
                   initial_mileage, submitted, req>>
    /\ History

(* the rows that refer to the account go with it *)
CASCADE_driver(tbl, u) ==
    LET other(row) == row.driver # u
    IN  SelectSeq(tbl, other)

(* on_delete=models.SET_NULL on MaintenanceRecord.responsible_mechanic *)
SET_NULL_responsible_mechanic(tbl, u) ==
    [i \in DOMAIN tbl |->
        [tbl[i] EXCEPT !.responsible_mechanic = IF @ = u THEN NoUser ELSE @]]

(* on_delete=models.SET_NULL on MileageRecord.driver *)
SET_NULL_driver(tbl, u) ==
    [i \in DOMAIN tbl |-> [tbl[i] EXCEPT !.driver = IF @ = u THEN NoUser ELSE @]]

(* admin site: delete a user account; its rows of the many-to-many table
   core_vehicle_assigned_drivers are deleted with it *)
DeleteUser(u) ==
    /\ u \in users
    /\ users' = users \ {u}
    /\ vehicle_tbl' = [v \in DOMAIN vehicle_tbl |->
                          [vehicle_tbl[v] EXCEPT !.assigned_drivers = @ \ {u}]]
    /\ maintenance_tbl' = SET_NULL_responsible_mechanic(maintenance_tbl, u)
    /\ mileage_tbl' = SET_NULL_driver(mileage_tbl, u)
    /\ response' = Reply("admin", "admin")
    /\ UNCHANGED <<group_permissions, auth, reader, initial_mileage, submitted, req>>
    /\ History

(* the record is written only when it raises the vehicle *)
MileageRecordSaveOnlyIfHigher(v, driver, mileage) ==
    IF MileageExceeds(vehicle_tbl[v], mileage)
    THEN /\ vehicle_tbl' = SaveVehicle(vehicle_tbl, v, UpdatedVehicle(vehicle_tbl[v], mileage))
         /\ mileage_tbl' = Append(mileage_tbl, MileageRow(v, driver, mileage))
    ELSE UNCHANGED <<vehicle_tbl, mileage_tbl>>

(* MileageRecord.save() on a record whose vehicle was loaded from the store *)
MileageRecordSave(v, driver, mileage) ==
    LET vehicle == vehicle_tbl[v]
    IN  /\ vehicle_tbl' = IF MileageExceeds(vehicle, mileage)
                          THEN SaveVehicle(vehicle_tbl, v, UpdatedVehicle(vehicle, mileage))
                          ELSE vehicle_tbl
        /\ mileage_tbl' = Append(mileage_tbl, MileageRow(v, driver, mileage))

(* POST /mileage/add/: MileageRecordCreateView *)
SubmitMileage(u, v, raw) ==
    /\ Len(mileage_tbl) < MaxMileageRecords
    /\ IF ~is_authenticated(u)
       THEN /\ response' = LoginRedirect(u, "/mileage/add/")
            /\ UNCHANGED <<store, submitted>>
       ELSE IF ~has_perm(u, "add_mileagerecord")
       THEN /\ response' = Reply("forbidden", u)
            /\ UNCHANGED <<store, submitted>>
       ELSE IF ~is_valid(u, v, raw)
       THEN /\ response' = FormInvalidReply(u, form_errors(u, v, raw))
            /\ UNCHANGED <<store, submitted>>
       ELSE /\ MileageRecordSave(v, u, raw.val)
            /\ submitted' = Append(submitted, [vehicle |-> v, mileage |-> raw.val])
            /\ response' = SuccessRedirect(u)
            /\ UNCHANGED maintenance_tbl
    /\ UNCHANGED <<group_permissions, users, auth, reader, initial_mileage, req>>
    /\ History

(* GET /dashboard/ by a logged-in user *)
Dashboard(u) ==
    /\ \E vehicles \in Orderings(vehicles_to_check(u)) :
       \E last \in [vehicles_to_check(u) -> 0..Len(maintenance_tbl)] :
          /\ \A v \in vehicles_to_check(u) : last[v] \in last_preventive_choices(v)
          /\ response' = DashboardReply(u, vehicles, last)
    /\ UNCHANGED <<group_permissions, users, auth, dash, store, initial_mileage, submitted, req>>

(* GET /dashboard/: LoginRequiredMixin.dispatch, then the view *)
DashboardGet(u) ==
    IF is_authenticated(u)
    THEN Dashboard(u)
    ELSE /\ response' = LoginRedirect(u, "/dashboard/")
         /\ UNCHANGED <<group_permissions, users, auth, dash, store,
                        initial_mileage, submitted, req>>

-----------------------------------------------------------------------------
(* POST /mileage/add/ step by step: the requests of several workers overlap.
   No transaction surrounds the view (populate_db alone asks for one), so
   every statement commits by itself. *)

Requests == 1..NumRequests

IdleReader ==
    [pc |-> "idle", user |-> "", vehicles |-> <<>>, rows |-> <<>>,
     checked |-> <<>>, alert_list |-> <<>>]

IdleRequest ==
    [pc |-> "start", user |-> "", vehicle |-> 0, mileage |-> 0,
     copy |-> VehicleRow(0, 0)]

(* form.is_valid(): the ModelChoiceField loads the vehicle, the instance keeps it *)
FormClean(r, u, v, raw) ==
    /\ req[r].pc = "start"
    /\ is_authenticated(u)
    /\ has_perm(u, "add_mileagerecord")
    /\ IF is_valid(u, v, raw)
       THEN /\ req' = [req EXCEPT ![r] = [pc |-> "valid", user |-> u, vehicle |-> v,
                                           mileage |-> raw.val, copy |-> vehicle_tbl[v]]]
            /\ submitted' = Append(submitted, [vehicle |-> v, mileage |-> raw.val])
            /\ UNCHANGED response
       ELSE /\ req' = [req EXCEPT ![r].pc = "invalid"]
            /\ response' = FormInvalidReply(u, form_errors(u, v, raw))
            /\ UNCHANGED submitted
    /\ UNCHANGED <<group_permissions, users, auth, dash, store, initial_mileage>>

(* MileageRecord.save(): the comparison on the loaded vehicle and vehicle.save() *)
VehicleSave(r) ==
    /\ req[r].pc = "valid"
    /\ vehicle_tbl' = IF MileageExceeds(req[r].copy, req[r].mileage)
                      THEN SaveVehicle(vehicle_tbl, req[r].vehicle,
                                       UpdatedVehicle(req[r].copy, req[r].mileage))
                      ELSE vehicle_tbl
    /\ req' = [req EXCEPT ![r].pc = "vehicle_saved"]
    /\ UNCHANGED <<group_permissions, users, auth, dash, maintenance_tbl, mileage_tbl, response,
                   initial_mileage, submitted>>

(* MileageRecord.save(): super().save(), the INSERT of the record *)
RecordInsert(r) ==
    /\ req[r].pc = "vehicle_saved"
    /\ mileage_tbl' = Append(mileage_tbl,
                             MileageRow(req[r].vehicle, req[r].user, req[r].mileage))
    /\ req' = [req EXCEPT ![r].pc = "done"]
    /\ response' = SuccessRedirect(req[r].user)
    /\ UNCHANGED <<group_permissions, users, auth, dash, vehicle_tbl, maintenance_tbl,
                   initial_mileage, submitted>>

(* the INSERT raises (a database error): the exception leaves save() and the view *)
RecordInsertFails(r) ==
    /\ req[r].pc = "vehicle_saved"
    /\ req' = [req EXCEPT ![r].pc = "error"]
    /\ response' = Reply("server_error", req[r].user)
    /\ UNCHANGED <<group_permissions, users, auth, dash, store, initial_mileage, submitted>>

-----------------------------------------------------------------------------
(* GET /dashboard/ step by step: the queries of get_context_data run one by
   one, each committed change of other requests is visible to the next query *)

(* the role filter is evaluated and the for statement runs the query of
   vehicles_to_check: the Vehicle objects of the loop are loaded here *)
DashboardQuery(u) ==
    /\ reader.pc = "idle"
    /\ is_authenticated(u)
    /\ \E vehicles \in Orderings(vehicles_to_check(u)) :
          reader' = [pc |-> "loop", user |-> u, vehicles |-> vehicles,
                     rows |-> [v \in vehicles_to_check(u) |-> vehicle_tbl[v]],
                     checked |-> <<>>, alert_list |-> <<>>]
    /\ seen' = AlertResults(u)
    /\ UNCHANGED <<group_permissions, users, auth, store, response,
                   initial_mileage, submitted, req>>

(* one turn of the loop: the query of last_preventive on the store as it is
   now, the arithmetic on the Vehicle object loaded before *)
DashboardLookup ==
    /\ reader.pc = "loop"
    /\ Len(reader.checked) < Len(reader.vehicles)
    /\ LET v == reader.vehicles[Len(reader.checked) + 1]
           vehicle == reader.rows[v]
       IN  \E last_preventive \in last_preventive_choices(v) :
              LET proxima == IF last_preventive # 0
                             THEN maintenance_tbl[last_preventive].mileage_at_maintenance
                                      + vehicle.maintenance_interval_km
                             ELSE vehicle.maintenance_interval_km
                  km_atual == vehicle.current_mileage
                  faltando == proxima - km_atual
              IN  reader' =
                    [reader EXCEPT
                       !.checked = Append(@, [vehicle |-> v, km_atual |-> km_atual,
                                              proxima_revisao_km |-> proxima,
                                              km_faltando |-> faltando]),
                       !.alert_list = IF InAlert(km_atual, proxima)
                                      THEN Append(@, [vehicle |-> v,
                                                      km_faltando |-> faltando,
                                                      proxima_revisao_km |-> proxima])
                                      ELSE @]
    /\ UNCHANGED <<group_permissions, users, auth, store, response,
                   initial_mileage, submitted, req, seen>>

(* the loop is over: context['alert_list'] is rendered *)
DashboardRender ==
    /\ reader.pc = "loop"
    /\ Len(reader.checked) = Len(reader.vehicles)
    /\ response' = [kind |-> "dashboard", user |-> reader.user, errors |-> {},
                    checked |-> reader.checked, alert_list |-> reader.alert_list,
                    location |-> ""]
    /\ reader' = IdleReader
    /\ UNCHANGED <<group_permissions, users, auth, store,
                   initial_mileage, submitted, req, seen>>

-----------------------------------------------------------------------------

(* manage.py migrate, step by step *)

(* the command starts *)
MigrateStart ==
    /\ migrate_pc = "idle"
    /\ migrate_pc' = "migrating"
    /\ UNCHANGED <<group_permissions, users, auth_permission, django_migrations,
                   dash, store, response, initial_mileage, submitted, req>>

(* the first migration of the plan that is not applied yet is applied *)
ApplyMigration ==
    /\ migrate_pc = "migrating"
    /\ \E i \in DOMAIN Migrations :
          /\ Migrations[i] \notin django_migrations
          /\ \A j \in 1..(i - 1) : Migrations[j] \in django_migrations
          /\ group_permissions' =
                RunPython(Migrations[i], group_permissions, auth_permission)
          /\ django_migrations' = django_migrations \cup {Migrations[i]}
    /\ UNCHANGED <<users, auth_permission, migrate_pc,
                   dash, store, response, initial_mileage, submitted, req>>

(* the plan is done and post_migrate is sent for core: the receiver of
   django.contrib.auth creates the missing permissions of the models, then
   create_groups_on_migrate runs *)
PostMigrate ==
    /\ migrate_pc = "migrating"
    /\ \A i \in DOMAIN Migrations : Migrations[i] \in django_migrations
    /\ auth_permission' = auth_permission \cup AllPermissions
    /\ group_permissions' = create_groups_on_migrate(group_permissions, auth_permission')
    /\ migrate_pc' = "idle"
    /\ UNCHANGED <<users, django_migrations,
                   dash, store, response, initial_mileage, submitted, req>>

-----------------------------------------------------------------------------

Init ==
    /\ group_permissions = create_groups_on_migrate(<<>>, AllPermissions)
    /\ vehicle_tbl = <<>>
    /\ maintenance_tbl = <<>>
    /\ mileage_tbl = <<>>
    /\ response = NoResponse
    /\ initial_mileage = <<>>
    /\ submitted = <<>>
    /\ req = [r \in Requests |-> IdleRequest]
    /\ users = Users
    /\ auth_permission = AllPermissions
    /\ django_migrations = {"0001", "0002", "0003"}
    /\ migrate_pc = "idle"
    /\ reader = IdleReader
    /\ seen = {}

(* Mileage ingestion *)
Next ==
    \/ \E km \in InitialKm, interval \in {1000} : CreateVehicle(km, interval)
    \/ \E v \in Vehicles, u \in Users : AssignDriver(v, u)
    \/ \E u \in Users, v \in Vehicles, raw \in RawMileage : SubmitMileage(u, v, raw)
    \/ \E u \in Users : Dashboard(u)

Spec == Init /\ [][Next]_vars

(* Maintenance alerts *)
AlertNext ==
    \/ \E km \in ValidKm, interval \in Intervals : CreateVehicle(km, interval)
    \/ \E v \in Vehicles, m \in MaintenanceInputs :
            AddMaintenance(v, m.type, m.date, m.km, "chefe")
    \/ \E u \in Users : Dashboard(u)

AlertSpec == Init /\ [][AlertNext]_vars

(* Overlapping mileage requests on a fleet of one vehicle driven by jose *)
ConcInit ==
    /\ group_permissions = create_groups_on_migrate(<<>>, AllPermissions)
    /\ \E km \in InitialKm :
          /\ vehicle_tbl = (1 :> [VehicleRow(km, 1000) EXCEPT !.assigned_drivers = {"jose"}])
          /\ initial_mileage = (1 :> km)
    /\ maintenance_tbl = <<>>
    /\ mileage_tbl = <<>>
    /\ response = NoResponse
    /\ submitted = <<>>
    /\ req = [r \in Requests |-> IdleRequest]
    /\ users = Users
    /\ auth_permission = AllPermissions
    /\ django_migrations = {"0001", "0002", "0003"}
    /\ migrate_pc = "idle"
    /\ reader = IdleReader
    /\ seen = {}

ConcNext ==
    \/ \E r \in Requests, raw \in RawMileage : FormClean(r, "jose", 1, raw)
    \/ \E r \in Requests : VehicleSave(r)
    \/ \E r \in Requests : RecordInsert(r)
    \/ \E r \in Requests : RecordInsertFails(r)
    \/ ChangeVehicle(1, 2000)

ConcSpec == ConcInit /\ [][ConcNext]_vars

(* The admin site and the login: vehicles and accounts come and go *)
SiteIntervals == {-1, 0, 1000}

SiteNext ==
    \/ \E interval \in SiteIntervals : CreateVehicle(1000, interval)
    \/ \E v \in Vehicles : AssignDriver(v, "jose")
    \/ \E v \in Vehicles : AddMaintenance(v, "PRE", 1, 1000, "chefe")
    \/ \E v \in Vehicles : SubmitMileage("jose", v, [num |-> TRUE, val |-> 2000])
    \/ \E v \in Vehicles : DeleteVehicle(v)
    \/ \E u \in {"jose", "chefe"} : DeleteUser(u)
    \/ \E u \in Users \cup {AnonymousUser} : DashboardGet(u)

SiteSpec == Init /\ [][SiteNext]_vars

(* The databases manage.py migrate may find: a new one, or one migrated
   before migration 0003 was written, where the permissions exist and a group
   Motorista may have been made by hand *)
PreexistingGroups ==
    {<<>>, "Motorista" :> {}, "Motorista" :> {"view_vehicle", "add_mileagerecord"}}

MigrateInit ==
    /\ \/ /\ django_migrations = {}
          /\ auth_permission = {}
          /\ group_permissions = <<>>
       \/ /\ django_migrations \in {{"0001"}, {"0001", "0002"}}
          /\ auth_permission = AllPermissions
          /\ group_permissions \in PreexistingGroups
    /\ migrate_pc = "idle"
    /\ vehicle_tbl = <<>>
    /\ maintenance_tbl = <<>>
    /\ mileage_tbl = <<>>
    /\ response = NoResponse
    /\ initial_mileage = <<>>
    /\ submitted = <<>>
    /\ req = [r \in Requests |-> IdleRequest]
    /\ users = Users
    /\ reader = IdleReader
    /\ seen = {}

MigrateNext ==
    \/ MigrateStart
    \/ ApplyMigration
    \/ PostMigrate
    \/ CreateVehicle(1000, 1000)
    \/ \E v \in Vehicles : AssignDriver(v, "jose")
    \/ \E u \in {"jose", "chefe", "guest"} : DashboardGet(u)

MigrateSpec == MigrateInit /\ [][MigrateNext]_vars

(* Services and mileage submissions on one vehicle driven by jose *)
ServiceInputs ==
    {[type |-> "PRE", date |-> 1, km |-> 0],
     [type |-> "PRE", date |-> 2, km |-> 1000],
     [type |-> "PRE", date |-> 3, km |-> 2000],
     [type |-> "COR", date |-> 3, km |-> 0]}

ServiceKm == {1999, 2000}

ServiceInit ==
    /\ group_permissions = create_groups_on_migrate(<<>>, AllPermissions)
    /\ \E interval \in Intervals :
          vehicle_tbl = (1 :> [VehicleRow(1000, interval) EXCEPT
                                  !.assigned_drivers = {"jose"}])
    /\ initial_mileage = (1 :> 1000)
    /\ maintenance_tbl = <<>>
    /\ mileage_tbl = <<>>
    /\ response = NoResponse
    /\ submitted = <<>>
    /\ req = [r \in Requests |-> IdleRequest]
    /\ users = Users
    /\ auth_permission = AllPermissions
    /\ django_migrations = {"0001", "0002", "0003"}
    /\ migrate_pc = "idle"
    /\ reader = IdleReader
    /\ seen = {}

ServiceNext ==
    \/ \E m \in ServiceInputs : AddMaintenance(1, m.type, m.date, m.km, "chefe")
    \/ \E km \in ServiceKm : SubmitMileage("jose", 1, [num |-> TRUE, val |-> km])
    \/ \E u \in {"jose", "chefe"} : DashboardGet(u)

ServiceSpec == ServiceInit /\ [][ServiceNext]_vars

(* A dashboard request beside mileage submissions and new maintenance
   records, on a fleet of two vehicles *)
ReadInit ==
    /\ group_permissions = create_groups_on_migrate(<<>>, AllPermissions)
    /\ vehicle_tbl = (1 :> [VehicleRow(1000, 1000) EXCEPT !.assigned_drivers = {"jose"}])
                        @@ (2 :> VehicleRow(0, 1000))
    /\ initial_mileage = (1 :> 1000) @@ (2 :> 0)
    /\ maintenance_tbl = <<>>
    /\ mileage_tbl = <<>>
    /\ response = NoResponse
    /\ submitted = <<>>
    /\ req = [r \in Requests |-> IdleRequest]
    /\ users = Users
    /\ auth_permission = AllPermissions
    /\ django_migrations = {"0001", "0002", "0003"}
    /\ migrate_pc = "idle"
    /\ reader = IdleReader
    /\ seen = {}

ReadNext ==
    \/ \E u \in {"admin", "jose"} : DashboardQuery(u)
    \/ DashboardLookup
    \/ DashboardRender
    \/ \E v \in Vehicles : AddMaintenance(v, "PRE", 1, 2000, "chefe")
    \/ SubmitMileage("jose", 1, [num |-> TRUE, val |-> 2000])

ReadSpec == ReadInit /\ [][ReadNext]_vars

-----------------------------------------------------------------------------
(* Properties *)

SetMax(S) == CHOOSE x \in S : \A y \in S : y <= x

(* the mileage values accepted for vehicle v so far *)
SubmittedTo(v) ==
    {submitted[i].mileage : i \in {j \in DOMAIN submitted : submitted[j].vehicle = v}}

RatchetHolds ==
    \A v \in DOMAIN vehicle_tbl :
        vehicle_tbl[v].current_mileage = SetMax({initial_mileage[v]} \cup SubmittedTo(v))

NeverDecreases ==
    \A v \in DOMAIN vehicle_tbl :
        vehicle_tbl'[v].current_mileage >= vehicle_tbl[v].current_mileage

(* C1: with the submissions processed one after another, each vehicle's
   current_mileage is the maximum of the mileage it was created with and of
   all the mileage values submitted for it, and no step lowers it. *)
C1_Ratchet == [](RatchetHolds) /\ [][NeverDecreases]_vars

(* a vehicle raised by one submission and then sent a lower value *)
C1_Witness ==
    \E v \in DOMAIN vehicle_tbl : \E i, j \in DOMAIN submitted :
        /\ i < j
        /\ submitted[i].vehicle = v /\ submitted[j].vehicle = v
        /\ submitted[i].mileage > initial_mileage[v]
        /\ submitted[j].mileage < submitted[i].mileage
        /\ vehicle_tbl[v].current_mileage = submitted[i].mileage

AllFinished == \A r \in Requests : req[r].pc \in {"start", "invalid", "done"}

(* C2: when the mileage requests for a vehicle overlap, once all of them have
   finished the stored current_mileage is the maximum of the initial value and
   of all submitted values (no lower write replaced a higher one). *)
C2_ConcurrentRatchet == AllFinished => RatchetHolds

(* C3: in every state of the store, a current_mileage raised by an ingestion
   comes with the record of that ingestion: the vehicle's current_mileage is
   its initial value or the mileage of one of its stored records. *)
C3_IngestionAtomic ==
    \A v \in DOMAIN vehicle_tbl :
        \/ vehicle_tbl[v].current_mileage = initial_mileage[v]
        \/ \E i \in DOMAIN mileage_tbl :
              /\ mileage_tbl[i].vehicle = v
              /\ mileage_tbl[i].mileage = vehicle_tbl[v].current_mileage

RecordCount(v, km) ==
    Cardinality({i \in DOMAIN mileage_tbl :
                    mileage_tbl[i].vehicle = v /\ mileage_tbl[i].mileage = km})

SubmittedCount(v, km) ==
    Cardinality({i \in DOMAIN submitted :
                    submitted[i].vehicle = v /\ submitted[i].mileage = km})

(* C4: every accepted submission is answered by the redirect and stored as one
   record with the submitted value: for each vehicle the stored values and the
   submitted values are the same multiset, and no record holds another value. *)
C4_HistoryFidelity ==
    /\ \A v \in Vehicles, km \in SubmittedKm : RecordCount(v, km) = SubmittedCount(v, km)
    /\ Len(mileage_tbl) = Len(submitted)
    /\ \A i \in DOMAIN mileage_tbl : mileage_tbl[i].mileage \in SubmittedKm
    /\ response.kind = "redirect" => mileage_tbl # <<>>

(* a stored record below the vehicle's mileage, and one equal to it *)
C4_Witness ==
    \E i, j \in DOMAIN mileage_tbl :
        /\ mileage_tbl[i].vehicle = mileage_tbl[j].vehicle
        /\ mileage_tbl[i].mileage < vehicle_tbl[mileage_tbl[i].vehicle].current_mileage
        /\ mileage_tbl[j].mileage = vehicle_tbl[mileage_tbl[j].vehicle].current_mileage
        /\ response.kind = "redirect"

-----------------------------------------------------------------------------
(* Properties of the dashboard *)

IsDashboard == response.kind = "dashboard"

(* the vehicles of the alert list *)
Listed == {response.alert_list[j].vehicle : j \in DOMAIN response.alert_list}

(* the vehicles the computation went through *)
Checked == {response.checked[i].vehicle : i \in DOMAIN response.checked}

(* C5: a vehicle the dashboard went through is in the alert list if and only if
   current_mileage >= next_due_mileage - 1000, that is remaining <= 1000. *)
C5_AlertInclusion ==
    IsDashboard =>
        \A i \in DOMAIN response.checked :
            LET c == response.checked[i]
                km == vehicle_tbl[c.vehicle].current_mileage
            IN  /\ (c.vehicle \in Listed) <=> (km >= c.proxima_revisao_km - 1000)
                /\ (c.vehicle \in Listed) <=> (c.proxima_revisao_km - km <= 1000)

(* a vehicle exactly 1000 before its next service, listed, and one 1001 before, not listed *)
C5_Witness ==
    /\ IsDashboard
    /\ \E i, j \in DOMAIN response.checked :
          /\ response.checked[i].km_atual = response.checked[i].proxima_revisao_km - 1000
          /\ response.checked[i].vehicle \in Listed
          /\ response.checked[j].km_atual = response.checked[j].proxima_revisao_km - 1001
          /\ response.checked[j].vehicle \notin Listed

PreventiveRows(v) ==
    {i \in DOMAIN maintenance_tbl :
        maintenance_tbl[i].vehicle = v /\ maintenance_tbl[i].maintenance_type = "PRE"}

(* C6: for a vehicle with a preventive record, next_due_mileage is the
   mileage_at_maintenance of a preventive record of the latest date plus the
   vehicle's interval, whatever the mileages, the insertion order and the
   corrective records are. *)
C6_NextDue ==
    IsDashboard =>
        \A k \in DOMAIN response.checked :
            LET c == response.checked[k]
            IN  PreventiveRows(c.vehicle) # {} =>
                    \E i \in PreventiveRows(c.vehicle) :
                        /\ \A j \in PreventiveRows(c.vehicle) :
                              maintenance_tbl[j].date <= maintenance_tbl[i].date
                        /\ c.proxima_revisao_km =
                              maintenance_tbl[i].mileage_at_maintenance
                                  + vehicle_tbl[c.vehicle].maintenance_interval_km

(* the later preventive record was stored first and has the lower mileage *)
C6_Witness ==
    /\ IsDashboard
    /\ \E k \in DOMAIN response.checked : \E i, j \in PreventiveRows(response.checked[k].vehicle) :
          /\ i < j
          /\ maintenance_tbl[i].date > maintenance_tbl[j].date
          /\ maintenance_tbl[i].mileage_at_maintenance < maintenance_tbl[j].mileage_at_maintenance
          /\ response.checked[k].proxima_revisao_km =
                maintenance_tbl[i].mileage_at_maintenance
                    + vehicle_tbl[response.checked[k].vehicle].maintenance_interval_km

(* C7: a vehicle without preventive records (none at all, or corrective ones
   only) has next_due_mileage = its interval I and is listed if and only if
   current_mileage >= I - 1000; at current_mileage 0 it is listed only if
   I <= 1000. *)
C7_NoHistoryDefault ==
    IsDashboard =>
        \A k \in DOMAIN response.checked :
            LET c == response.checked[k]
                vehicle == vehicle_tbl[c.vehicle]
            IN  PreventiveRows(c.vehicle) = {} =>
                    /\ c.proxima_revisao_km = vehicle.maintenance_interval_km
                    /\ (c.vehicle \in Listed) <=>
                          (vehicle.current_mileage >= vehicle.maintenance_interval_km - 1000)
                    /\ (vehicle.current_mileage = 0 /\ c.vehicle \in Listed) =>
                          vehicle.maintenance_interval_km <= 1000

(* a vehicle with a corrective record only, at 0 km and not listed, beside an
   unserviced vehicle at 0 km that is listed *)
C7_Witness ==
    /\ IsDashboard
    /\ \E k, l \in DOMAIN response.checked :
          LET c == response.checked[k]
              d == response.checked[l]
          IN  /\ PreventiveRows(c.vehicle) = {}
              /\ \E i \in DOMAIN maintenance_tbl : maintenance_tbl[i].vehicle = c.vehicle
              /\ c.km_atual = 0
              /\ c.vehicle \notin Listed
              /\ PreventiveRows(d.vehicle) = {}
              /\ d.km_atual = 0
              /\ d.vehicle \in Listed

(* the roles that hold core.view_vehicle *)
SeesAllVehicles(u) == UserGroups(u) \cap {"Mecanico", "Administrador"} # {}

AssignedTo(u) == {v \in DOMAIN vehicle_tbl : u \in vehicle_tbl[v].assigned_drivers}

(* C8: the dashboard goes through all vehicles for a Mecanico or Administrador,
   through exactly the assigned vehicles for a viewer who is only a Motorista,
   and through none for a viewer without a role; so a Motorista's alert list
   holds assigned vehicles only and a viewer without a role gets an empty list. *)
C8_RoleVisibility ==
    IsDashboard =>
        LET u == response.user
        IN  /\ Checked = IF SeesAllVehicles(u)
                         THEN DOMAIN vehicle_tbl
                         ELSE IF "Motorista" \in UserGroups(u) THEN AssignedTo(u) ELSE {}
            /\ Listed \subseteq Checked
            /\ ~SeesAllVehicles(u) => Listed \subseteq AssignedTo(u)
            /\ UserGroups(u) = {} => response.alert_list = <<>>

(* a Motorista assigned to one of two vehicles, after a mileage submission,
   whose alert list holds that vehicle only *)
C8_Witness ==
    /\ IsDashboard
    /\ response.user = "jose"
    /\ DOMAIN vehicle_tbl = {1, 2}
    /\ AssignedTo("jose") = {2}
    /\ Listed = {2}
    /\ mileage_tbl # <<>>

(* the position of vehicle v in the sequence the dashboard went through *)
CheckedAt(v) == CHOOSE i \in DOMAIN response.checked : response.checked[i].vehicle = v

(* C9: the alert list has one entry for each flagged vehicle and none for the
   others, each entry with the vehicle's next_due_mileage and
   remaining = next_due_mileage - current_mileage (<= 0 when overdue), in the
   order in which the vehicles were gone through, whatever their urgency. *)
C9_AlertListShape ==
    IsDashboard =>
        LET alerts == response.alert_list
        IN  /\ \A j, k \in DOMAIN alerts : alerts[j].vehicle = alerts[k].vehicle => j = k
            /\ \A i \in DOMAIN response.checked :
                  LET c == response.checked[i]
                  IN  (c.vehicle \in Listed) <=>
                        (vehicle_tbl[c.vehicle].current_mileage >= c.proxima_revisao_km - 1000)
            /\ \A j \in DOMAIN alerts :
                  /\ alerts[j].vehicle \in Checked
                  /\ alerts[j].proxima_revisao_km =
                        response.checked[CheckedAt(alerts[j].vehicle)].proxima_revisao_km
                  /\ alerts[j].km_faltando =
                        alerts[j].proxima_revisao_km
                            - vehicle_tbl[alerts[j].vehicle].current_mileage
                  /\ vehicle_tbl[alerts[j].vehicle].current_mileage
                        >= alerts[j].proxima_revisao_km => alerts[j].km_faltando <= 0
            /\ \A j, k \in DOMAIN alerts :
                  j < k => CheckedAt(alerts[j].vehicle) < CheckedAt(alerts[k].vehicle)

(* two entries, the overdue vehicle after the one that is only due soon *)
C9_Witness ==
    /\ IsDashboard
    /\ Len(response.alert_list) = 2
    /\ response.alert_list[1].km_faltando > 0
    /\ response.alert_list[2].km_faltando < 0

(* C10: a mileage form whose value is negative or no number is answered with
   the form's validation error on the mileage field, and the step stores
   nothing: no table changes. *)
C10_InvalidMileageRejected ==
    [][\A v \in Vehicles, raw \in {x \in RawMileage : ~(x.num /\ x.val >= 0)} :
          (/\ response'.user \in Users
           /\ has_perm(response'.user, "add_mileagerecord")
           /\ SubmitMileage(response'.user, v, raw))
          => (/\ response'.kind = "form_invalid"
              /\ "mileage" \in response'.errors
              /\ store' = store
              /\ submitted' = submitted)]_vars

(* a negative or non-numeric value for an assigned vehicle was just rejected,
   with a record already stored *)
C10_Witness ==
    /\ response.kind = "form_invalid"
    /\ response.errors = {"mileage"}
    /\ mileage_tbl # <<>>

-----------------------------------------------------------------------------
(* Determinism and consistency of the alert computation *)

(* C11: two dashboard requests of the same viewer with no change of the store
   between them return the same alert list (the same vehicles with the same
   next_due and remaining values), also when preventive records of a vehicle
   share the latest date, and a dashboard request changes no table. *)
C11_Deterministic ==
    [][/\ (/\ response.kind = "dashboard"
           /\ response'.kind = "dashboard"
           /\ response'.user = response.user)
          => Range(response'.alert_list) = Range(response.alert_list)
       /\ response'.kind = "dashboard" => store' = store]_vars

(* C12: the alert list a dashboard request returns is the alert list of one
   of the states the store went through between the request's read of the
   vehicles and its end, whatever mileage submissions and new maintenance
   records were committed meanwhile. *)
C12_ConsistentSnapshot ==
    [][(reader.pc = "loop" /\ reader'.pc = "idle")
          => Range(response'.alert_list) \in seen]_vars

-----------------------------------------------------------------------------
(* Properties of the data model and of the login *)

(* C13: every stored vehicle has maintenance_interval_km > 0: the validation
   of the data model lets no vehicle with an interval of 0 in. *)
C13_PositiveInterval ==
    \A v \in DOMAIN vehicle_tbl : vehicle_tbl[v].maintenance_interval_km > 0

(* C14: a mileage form is accepted only for a vehicle whose assigned drivers
   include the submitting user: every stored record names a driver assigned to
   its vehicle, the record stored by an accepted form has the submitting user
   as its driver, a user without assigned vehicles is never accepted, and a
   rejected form changes no table. *)
C14_SubmissionScope ==
    /\ [](/\ \A i \in DOMAIN mileage_tbl :
                mileage_tbl[i].driver
                    \in vehicle_tbl[mileage_tbl[i].vehicle].assigned_drivers
          /\ response.kind = "redirect" =>
                /\ mileage_tbl # <<>>
                /\ mileage_tbl[Len(mileage_tbl)].driver = response.user
                /\ AssignedTo(response.user) # {})
    /\ [][response'.kind \in {"form_invalid", "forbidden"} => store' = store]_vars

(* a driver with an assigned vehicle and a stored record named a vehicle that
   is not assigned to them, and the form came back with an error on the vehicle *)
C14_Witness ==
    /\ response.kind = "form_invalid"
    /\ "vehicle" \in response.errors
    /\ AssignedTo(response.user) # {}
    /\ \E i \in DOMAIN mileage_tbl : mileage_tbl[i].driver = response.user
    /\ DOMAIN vehicle_tbl = Vehicles

NoOrphans ==
    /\ \A i \in DOMAIN maintenance_tbl : maintenance_tbl[i].vehicle \in DOMAIN vehicle_tbl
    /\ \A i \in DOMAIN mileage_tbl : mileage_tbl[i].vehicle \in DOMAIN vehicle_tbl

(* C15: every maintenance record and every mileage record refers to a vehicle
   that exists, after any creations and deletions; the step that deletes a
   vehicle removes exactly the records of that vehicle and leaves the records
   of the other vehicles, and those vehicles, as they were. *)
C15_CascadeDelete ==
    /\ [](NoOrphans)
    /\ [][\A v \in DOMAIN vehicle_tbl :
            v \notin DOMAIN vehicle_tbl' =>
                LET other(row) == row.vehicle # v
                IN  /\ maintenance_tbl' = SelectSeq(maintenance_tbl, other)
                    /\ mileage_tbl' = SelectSeq(mileage_tbl, other)
                    /\ \A w \in DOMAIN vehicle_tbl \ {v} :
                          /\ w \in DOMAIN vehicle_tbl'
                          /\ vehicle_tbl'[w] = vehicle_tbl[w]]_vars

(* vehicle 1, which had a mileage record, is deleted; vehicle 2 is there with
   its maintenance record and its mileage record *)
C15_Witness ==
    /\ 1 \in DOMAIN initial_mileage \ DOMAIN vehicle_tbl
    /\ \E i \in DOMAIN submitted : submitted[i].vehicle = 1
    /\ 2 \in DOMAIN vehicle_tbl
    /\ \E i \in DOMAIN maintenance_tbl : maintenance_tbl[i].vehicle = 2
    /\ \E i \in DOMAIN mileage_tbl : mileage_tbl[i].vehicle = 2

(* C16: the step that deletes a user account deletes no maintenance record and
   no mileage record: each record keeps its place and all its fields, except
   that a reference to the deleted account (responsible_mechanic, driver) is
   null afterwards; the vehicles keep their mileage and interval, and the alert
   list of every remaining viewer is what it was. *)
C16_AccountDeletionKeepsHistory ==
    [][\A u \in users :
          u \notin users' =>
            /\ DOMAIN maintenance_tbl' = DOMAIN maintenance_tbl
            /\ \A i \in DOMAIN maintenance_tbl :
                  maintenance_tbl'[i] =
                      [maintenance_tbl[i] EXCEPT
                          !.responsible_mechanic = IF @ = u THEN NoUser ELSE @]
            /\ DOMAIN mileage_tbl' = DOMAIN mileage_tbl
            /\ \A i \in DOMAIN mileage_tbl :
                  mileage_tbl'[i] =
                      [mileage_tbl[i] EXCEPT !.driver = IF @ = u THEN NoUser ELSE @]
            /\ DOMAIN vehicle_tbl' = DOMAIN vehicle_tbl
            /\ \A v \in DOMAIN vehicle_tbl :
                  /\ vehicle_tbl'[v].current_mileage = vehicle_tbl[v].current_mileage
                  /\ vehicle_tbl'[v].maintenance_interval_km
                        = vehicle_tbl[v].maintenance_interval_km
            /\ \A viewer \in users' :
                  AlertResults(viewer)' = AlertResults(viewer)]_vars

(* the driver of a mileage record and the mechanic of a maintenance record are
   deleted, both records are there with a null reference *)
C16_Witness ==
    /\ users = Users \ {"jose", "chefe"}
    /\ \E i \in DOMAIN mileage_tbl :
          /\ mileage_tbl[i].driver = NoUser
          /\ mileage_tbl[i].mileage = 2000
          /\ \E j \in DOMAIN maintenance_tbl :
                /\ maintenance_tbl[j].responsible_mechanic = NoUser
                /\ maintenance_tbl[j].vehicle = mileage_tbl[i].vehicle

(* C17: a dashboard request without a login computes nothing and is answered
   with the redirect to /accounts/login/?next=/dashboard/, and no response with
   an alert list goes to a user who is not logged in; a dashboard request of a
   logged-in user of any role is answered with the page and its alert_list. *)
C17_LoginRequired ==
    /\ [](response.kind = "dashboard" => response.user \in users)
    /\ [][\A u \in Users \cup {AnonymousUser} :
            (u = response'.user /\ DashboardGet(u)) =>
                IF u \in users
                THEN /\ response'.kind = "dashboard"
                     /\ Range(response'.alert_list) \in AlertResults(u)
                ELSE /\ response'.kind = "login_redirect"
                     /\ response'.location = "/accounts/login/?next=/dashboard/"
                     /\ response'.checked = <<>>
                     /\ response'.alert_list = <<>>
                     /\ store' = store]_vars

(* the anonymous request was redirected to the login, with vehicles stored *)
C17_Witness ==
    /\ response.user = AnonymousUser
    /\ response.kind = "login_redirect"
    /\ response.location = "/accounts/login/?next=/dashboard/"
    /\ vehicle_tbl # <<>>

-----------------------------------------------------------------------------
(* Properties of the roles *)

(* the migrate command has gone through migration 0003 and post_migrate *)
Provisioned == migrate_pc = "idle" /\ "0003" \in django_migrations

(* C18: once migration 0003 and then the post_migrate handler have run, and
   after every later migrate run, the permissions of Motorista are exactly
   add_mileagerecord and view_mileagerecord (view_vehicle is not among them),
   those of Mecanico are add_, change_, view_maintenancerecord and
   view_vehicle, those of Administrador are all twelve of the three models;
   and the dashboard of a user who is only a Motorista goes through the
   vehicles assigned to them, not through all vehicles. *)
C18_RoleProvisioning ==
    /\ [](Provisioned =>
            /\ group_permissions["Motorista"] = {"add_mileagerecord", "view_mileagerecord"}
            /\ group_permissions["Mecanico"] =
                  {"add_maintenancerecord", "change_maintenancerecord",
                   "view_maintenancerecord", "view_vehicle"}
            /\ group_permissions["Administrador"] =
                  {a \o "_" \o m : a \in {"add", "change", "delete", "view"},
                                   m \in {"vehicle", "maintenancerecord", "mileagerecord"}})
    /\ [][(Provisioned /\ response'.user = "jose" /\ DashboardGet("jose")) =>
             {response'.checked[i].vehicle : i \in DOMAIN response'.checked}
                 = AssignedTo("jose")]_vars

(* migration 0003 had given view_vehicle to the new group Motorista, and jose's
   dashboard went through both vehicles; post_migrate has run since and the
   group has lost view_vehicle *)
C18_Witness ==
    /\ Provisioned
    /\ "view_vehicle" \notin group_permissions["Motorista"]
    /\ response.kind = "dashboard"
    /\ response.user = "jose"
    /\ Checked = {1, 2}
    /\ AssignedTo("jose") = {1}

-----------------------------------------------------------------------------
(* Properties of the ingestion beside other requests *)

(* C19: in every state reached by mileage submissions, overlapping ones
   included, a vehicle's current_mileage is at least the mileage of each of
   its stored mileage records. *)
C19_HighWaterMark ==
    \A i \in DOMAIN mileage_tbl :
        vehicle_tbl[mileage_tbl[i].vehicle].current_mileage >= mileage_tbl[i].mileage

(* C20: the write of the vehicle by a mileage submission changes nothing but
   that vehicle's current_mileage (its maintenance_interval_km and assigned
   drivers, the other vehicles and the maintenance records stay as stored),
   also when the vehicle was changed after the submission read it; and the
   write of the record adds that one record and nothing else. *)
C20_IngestionFrame ==
    [][\A r \in Requests :
          /\ (req[r].pc = "valid" /\ req'[r].pc = "vehicle_saved") =>
                /\ \A v \in DOMAIN vehicle_tbl :
                      /\ vehicle_tbl'[v].maintenance_interval_km
                            = vehicle_tbl[v].maintenance_interval_km
                      /\ vehicle_tbl'[v].assigned_drivers = vehicle_tbl[v].assigned_drivers
                      /\ v # req[r].vehicle => vehicle_tbl'[v] = vehicle_tbl[v]
                /\ maintenance_tbl' = maintenance_tbl
                /\ mileage_tbl' = mileage_tbl
          /\ (req[r].pc = "vehicle_saved" /\ req'[r].pc = "done") =>
                /\ vehicle_tbl' = vehicle_tbl
                /\ maintenance_tbl' = maintenance_tbl
                /\ Len(mileage_tbl') = Len(mileage_tbl) + 1
                /\ SubSeq(mileage_tbl', 1, Len(mileage_tbl)) = mileage_tbl]_vars

-----------------------------------------------------------------------------
(* Properties of the alert after a service *)

(* the preventive record of vehicle v whose date is later than that of every
   other preventive record of v, or 0 if there is none *)
StrictlyLatest(v) ==
    LET S == {i \in PreventiveRows(v) :
                \A j \in PreventiveRows(v) \ {i} :
                    maintenance_tbl[j].date < maintenance_tbl[i].date}
    IN  IF S = {} THEN 0 ELSE CHOOSE i \in S : TRUE

(* the vehicles of the alert lists the viewer chefe may get *)
MayBeListed == UNION {{e.vehicle : e \in result} : result \in AlertResults("chefe")}

(* C21: for a vehicle with an interval above 1000, the step that stores a
   preventive record dated after all its preventive records, with a mileage
   not below the vehicle's current_mileage, leaves the vehicle out of the
   alert list; every dashboard leaves a vehicle out as long as its
   current_mileage is below the mileage of its latest preventive record
   + interval - 1000, and lists it from there on; and the step that stores a
   preventive record dated before the latest one changes no alert list. *)
C21_AlertClearsAfterService ==
    /\ [](IsDashboard =>
            \A k \in DOMAIN response.checked :
                LET v == response.checked[k].vehicle
                    m == StrictlyLatest(v)
                IN  (m # 0 /\ vehicle_tbl[v].maintenance_interval_km > 1000) =>
                        ((v \in Listed) <=>
                            (vehicle_tbl[v].current_mileage
                                >= maintenance_tbl[m].mileage_at_maintenance
                                    + vehicle_tbl[v].maintenance_interval_km - 1000)))
    /\ [][Len(maintenance_tbl') = Len(maintenance_tbl) + 1 =>
            LET new == maintenance_tbl'[Len(maintenance_tbl')]
                v == new.vehicle
            IN  new.maintenance_type = "PRE" =>
                  /\ (/\ vehicle_tbl[v].maintenance_interval_km > 1000
                      /\ \A i \in PreventiveRows(v) : maintenance_tbl[i].date < new.date
                      /\ new.mileage_at_maintenance >= vehicle_tbl[v].current_mileage)
                        => v \notin MayBeListed'
                  /\ (\E i \in PreventiveRows(v) : maintenance_tbl[i].date > new.date)
                        => /\ AlertResults("chefe")' = AlertResults("chefe")
                           /\ AlertResults("jose")' = AlertResults("jose")]_vars

(* the vehicle, interval 2000, was serviced at 1000 km; a record of an earlier
   service was stored after that and the vehicle went on to 1999 km: the
   dashboard does not list it *)
C21_Witness ==
    /\ IsDashboard
    /\ 1 \in Checked \ Listed
    /\ vehicle_tbl[1].maintenance_interval_km = 2000
    /\ vehicle_tbl[1].current_mileage = 1999
    /\ \E i, j \in PreventiveRows(1) :
          /\ i < j
          /\ maintenance_tbl[i].date = 2
          /\ maintenance_tbl[i].mileage_at_maintenance = 1000
          /\ maintenance_tbl[j].date = 1

====
